---- MODULE Spec2Model ----
(***************************************************************************)
(* The PDF-reader backend proxy: an Express application with a shared      *)
(* express-rate-limit instance, a TTS forwarder (POST /api/tts), an audio  *)
(* relay (POST /api/download-audio) and three static routes.               *)
(*                                                                         *)
(* The repository holds three revisions of the server:                     *)
(*   "app_js"     src/app.js               (voiceName, buffering relay)    *)
(*   "part_000_a" src/unnamed/part_000:1   (voiceName, streaming relay)    *)
(*   "part_000_b" src/unnamed/part_000:198 (voice, streaming relay)        *)
(* The variable `variant` fixes which revision is running.                 *)
(*                                                                         *)
(* A JavaScript value that may be absent is modelled as a sequence of      *)
(* length at most one: <<>> is undefined/null, <<v>> is the value v.       *)
(***************************************************************************)
EXTENDS Integers, Sequences, FiniteSets, TLC

VARIABLES variant, hits, arrivals, handled, routesSeen, req, pinger

vars == <<variant, hits, arrivals, handled, routesSeen, req, pinger>>
\* The state of request handling and of the rate limiter.
serverVars == <<variant, hits, arrivals, handled, routesSeen, req>>

\* ------------------------------------------------------------ bounds
\* Requests an address may send in one window beyond the quota (SpecLimiter).
Slack == 2
\* Requests an address may send in one window in Spec, and the second address in
\* SpecLimiter.
ArrivalCap == 1
\* Body chunks an upstream audio source delivers at most.
MaxChunks == 2
\* Pings that may be awaiting their answer at one time.
MaxPings == 2

\* ------------------------------------------------------------ program constants
max == 200
THROTTLED == 429
BAD_REQUEST == 400
SERVER_ERROR == 500
STATUS_OK == 200

Variants == {"app_js", "part_000_a", "part_000_b"}
Streaming(v) == v \in {"part_000_a", "part_000_b"}

Addresses == {"ip1", "ip2"}
Slots == {"s1"}

DATA == "GET /api/data"
TTS == "POST /api/tts"
DOWNLOAD == "POST /api/download-audio"
HEALTH == "GET /api/health"
ROOT == "GET /"
LimitedRoutes == {DATA, TTS, DOWNLOAD}
UnlimitedRoutes == {HEALTH, ROOT}
Routes == LimitedRoutes \cup UnlimitedRoutes
LimitedEverywhere(route) == TRUE
\* The routes registered with apiLimiter in their middleware chain.
Limited(route) == route \in {DATA, TTS, DOWNLOAD}

\* ------------------------------------------------------------ JS values
None == <<>>
Some(v) == <<v>>
Opt(S) == {None} \cup {Some(v) : v \in S}
\* !x is false: x is a non-empty string
TruthyStr(x) == x # None /\ x[1] # ""
\* x || ... keeps x: x is a non-zero number
TruthyNum(x) == x # None /\ x[1] # 0

FieldVals == Opt({"", "x"})
NoBody == [text |-> None, voice |-> None, voiceName |-> None, audioUrl |-> None]
TtsBodies == [text : FieldVals, voice : FieldVals, voiceName : FieldVals, audioUrl : {None}]
DownloadBodies == [text : {None}, voice : {None}, voiceName : {None}, audioUrl : FieldVals]
Bodies(route) ==
    CASE route = TTS -> TtsBodies
      [] route = DOWNLOAD -> DownloadBodies
      [] OTHER -> {NoBody}

\* ------------------------------------------------------------ responses
NoHeaders == [ctype |-> None, clen |-> None, cdisp |-> None, cache |-> None]
NoDetails == [msg |-> "none", value |-> None]
\* A fresh ServerResponse: statusCode 200, nothing written. ends counts the calls
\* that terminate the response (res.json, res.send, res.end).
NewRes ==
    [status |-> STATUS_OK, headersSent |-> FALSE, ended |-> FALSE, ends |-> 0,
     kind |-> "none", details |-> NoDetails, audioUrl |-> None, headers |-> NoHeaders,
     bytes |-> 0]

\* res.status(code).json(payload) / res.json(payload) / res.send(text)
SendBody(res, code, kind) ==
    [res EXCEPT !.status = code, !.headersSent = TRUE, !.ended = TRUE, !.ends = @ + 1,
                !.kind = kind]
SendError(res, code, details) ==
    [SendBody(res, code, "json_error") EXCEPT !.details = details]

\* The provider's JSON payload as the TTS handler saw it.
NoData == [kind |-> "none", Error |-> None, URL |-> None]
\* The audio source's response headers as the relay saw them.
NoSrc == [ctype |-> None, clen |-> None, cdisp |-> None]
IdleReq ==
    [pc |-> "idle", gen |-> 0, addr |-> "ip1", route |-> ROOT, body |-> NoBody,
     limited |-> FALSE, fetched |-> "none",
     admitted |-> FALSE, firstOnRoute |-> FALSE, outbound |-> 0, src |-> NoSrc,
     data |-> NoData, bufferLen |-> None, fail |-> "none", sentAtFail |-> FALSE,
     res |-> NewRes]

\* ------------------------------------------------------------ rate limiter
LimiterKeyPerRoute(addr, route) == <<addr, route>>
\* keyGenerator default: the client address; one store for the one instance.
LimiterKey(addr, route) == addr
LimiterKeys == {LimiterKey(a, r) : a \in Addresses, r \in LimitedRoutes}

OverLimitAtMax(current) == current >= max
\* The middleware's decision once the key's counter was incremented to `current`.
OverLimit(current) == current > max

\* ------------------------------------------------------------ validation
\* const { text, voiceName } = req.body  /  const { text, voice } = req.body
VoiceField(v, body) == IF v = "part_000_b" THEN body.voice ELSE body.voiceName
TtsInvalid(v, body) == ~TruthyStr(body.text) \/ ~TruthyStr(VoiceField(v, body))
DownloadInvalidOnlyMissing(body) == body.audioUrl = None
DownloadInvalid(body) == ~TruthyStr(body.audioUrl)

\* ------------------------------------------------------------ liveness pinger
\* require('./keepAlive') runs setInterval once; part_000:216 has it commented out.
LoadsKeepAlive(v) == v # "part_000_b"

\* timer: the interval of setInterval; phase flips at every tick; fetching and
\* parsing count the pings awaiting fetch(...) and res.json(); log is the last
\* line written and caught the last failure the catch received; crashed: an unhandled rejection ended the process.
StartPinger(v) ==
    [timer |-> IF LoadsKeepAlive(v) THEN "armed" ELSE "none", phase |-> 0,
     fetching |-> 0, parsing |-> 0, log |-> "started", caught |-> "none",
     crashed |-> FALSE]

\* What the GET settles with, and what res.json() of its answer settles with:
\* a body that is not JSON, the JSON value null, an object without the fields,
\* an object without `endpoints`, the health payload.
PingFetchOutcomes == {"reject", "response"}
PingBodies == {"not_json", "null", "no_fields", "no_endpoints", "health"}

PingCatchRejectionsOnly(p, reason) ==
    IF reason = "type_error"
    THEN [p EXCEPT !.log = "uncaught", !.crashed = TRUE, !.timer = "none"]
    ELSE [p EXCEPT !.log = "error", !.caught = reason]
\* .catch(err => console.error(...)) at the end of the chain: it receives the
\* rejections of fetch and res.json() and what the logging callback throws.
PingCatch(p, reason) == [p EXCEPT !.log = "error", !.caught = reason]

\* The interval fires: log, then fetch(health URL).
PingTick ==
    /\ pinger.timer = "armed"
    /\ ~pinger.crashed
    /\ pinger' = [pinger EXCEPT !.phase = 1 - @, !.fetching = @ + 1, !.log = "sending"]
    /\ UNCHANGED serverVars

\* fetch(...) of a ping settles; .then(res => res.json()) on an answer of any status.
PingFetchSettles(outcome) ==
    /\ pinger.fetching > 0
    /\ ~pinger.crashed
    /\ pinger' =
          IF outcome = "reject"
          THEN PingCatch([pinger EXCEPT !.fetching = @ - 1], "network")
          ELSE [pinger EXCEPT !.fetching = @ - 1, !.parsing = @ + 1]
    /\ UNCHANGED serverVars

\* res.json() of a ping settles; the logging callback reads data.status,
\* data.timestamp and data.endpoints.length.
PingJsonSettles(body) ==
    /\ pinger.parsing > 0
    /\ ~pinger.crashed
    /\ LET p == [pinger EXCEPT !.parsing = @ - 1]
       IN pinger' =
            CASE body = "not_json" -> PingCatch(p, "parse")
              [] body \in {"null", "no_fields", "no_endpoints"} -> PingCatch(p, "type_error")
              [] body = "health" -> [p EXCEPT !.log = "response"]
    /\ UNCHANGED serverVars

\* ------------------------------------------------------------ Init
Init ==
    /\ variant \in Variants
    /\ hits = [k \in LimiterKeys |-> 0]
    /\ arrivals = [a \in Addresses |-> 0]
    /\ handled = [a \in Addresses |-> 0]
    /\ routesSeen = [a \in Addresses |-> {}]
    /\ req = [s \in Slots |-> IdleReq]
    /\ pinger = StartPinger(variant)

\* ------------------------------------------------------------ limiter store
\* A request of `key` is suspended on an outbound call or a stream.
InFlight(key) ==
    \E s \in DOMAIN req :
        /\ req[s].pc \notin {"idle", "done"}
        /\ req[s].limited
        /\ LimiterKey(req[s].addr, req[s].route) = key

StoreIncrementRacy(store, key) ==
    IF InFlight(key) THEN store ELSE [store EXCEPT ![key] = @ + 1]
\* The store's increment of a key's counter: one synchronous read-modify-write
\* inside the middleware, before the handler is called.
StoreIncrement(store, key) == [store EXCEPT ![key] = @ + 1]

\* ------------------------------------------------------------ handlers
\* The synchronous part of a route handler, run on an admitted request r.
Handle(r) ==
    CASE r.route = DATA -> [r EXCEPT !.pc = "done", !.res = SendBody(@, STATUS_OK, "json_data")]
      [] r.route = HEALTH -> [r EXCEPT !.pc = "done", !.res = SendBody(@, STATUS_OK, "json_health")]
      [] r.route = ROOT -> [r EXCEPT !.pc = "done", !.res = SendBody(@, STATUS_OK, "html")]
      [] r.route = TTS ->
            IF TtsInvalid(variant, r.body)
            THEN [r EXCEPT !.pc = "done",
                           !.res = SendError(@, BAD_REQUEST, [msg |-> "required", value |-> None])]
            ELSE [r EXCEPT !.pc = "tts_fetch", !.outbound = @ + 1]
      [] r.route = DOWNLOAD ->
            IF DownloadInvalid(r.body)
            THEN [r EXCEPT !.pc = "done",
                           !.res = SendError(@, BAD_REQUEST, [msg |-> "required", value |-> None])]
            ELSE [r EXCEPT !.pc = "dl_fetch", !.outbound = @ + 1]

\* A request arrives in a free slot: the limiter middleware (limited routes), then
\* the handler up to its first await.
Receive(s, addr, route, body) ==
    /\ req[s].pc \in {"idle", "done"}
    /\ LET fresh == [IdleReq EXCEPT !.pc = "received", !.gen = 1 - req[s].gen, !.addr = addr,
                                    !.route = route, !.body = body]
       IN IF Limited(route)
          THEN LET key == LimiterKey(addr, route)
                   counted == StoreIncrement(hits, key)
                   current == counted[key]
                   r == [fresh EXCEPT !.limited = TRUE,
                                      !.firstOnRoute = route \notin routesSeen[addr]]
               IN /\ hits' = counted
                  /\ arrivals' = [arrivals EXCEPT ![addr] = @ + 1]
                  /\ routesSeen' = [routesSeen EXCEPT ![addr] = @ \cup {route}]
                  /\ IF OverLimit(current)
                     THEN /\ req' = [req EXCEPT ![s] =
                                [r EXCEPT !.pc = "done",
                                          !.res = SendBody(@, THROTTLED, "throttle_msg")]]
                          /\ UNCHANGED handled
                     ELSE /\ req' = [req EXCEPT ![s] = Handle([r EXCEPT !.admitted = TRUE])]
                          /\ handled' = [handled EXCEPT ![addr] = @ + 1]
          ELSE /\ req' = [req EXCEPT ![s] = Handle([fresh EXCEPT !.admitted = TRUE])]
               /\ UNCHANGED <<hits, arrivals, handled, routesSeen>>
    /\ UNCHANGED variant

\* The 15-minute window of an address ends: its counter starts again.
WindowReset(addr) ==
    /\ arrivals[addr] > 0
    /\ hits' = [k \in LimiterKeys |->
                  IF \E r \in LimitedRoutes : k = LimiterKey(addr, r) THEN 0 ELSE hits[k]]
    /\ arrivals' = [arrivals EXCEPT ![addr] = 0]
    /\ handled' = [handled EXCEPT ![addr] = 0]
    /\ routesSeen' = [routesSeen EXCEPT ![addr] = {}]
    /\ UNCHANGED <<variant, req>>

\* ------------------------------------------------------------ TTS forwarder
\* What fetch('https://ttsmp3.com/makemp3.php') settles with.
FetchOutcomes == {"reject", "not_ok", "ok"}
\* What response.json() settles with: a rejection (body is not JSON), the JSON value
\* null, or an object with optional Error and URL members.
ProviderErrors == Opt({0, 1})
ProviderUrls == Opt({"", "u"})
JsonOutcomes ==
    [kind : {"reject", "null"}, Error : {None}, URL : {None}]
        \cup [kind : {"object"}, Error : ProviderErrors, URL : ProviderUrls]

\* if (data.Error === 0 && data.URL)
ProviderSucceeded(data) == data.Error = Some(0) /\ TruthyStr(data.URL)

\* The message of the Error thrown when the provider's payload is not a success.
\* msg is the fixed text; value is what the template embeds (part_000_a embeds
\* data.Error || 'Unknown error': None stands for the text 'Unknown error').
FailureDetails(v, data) ==
    IF v = "part_000_a"
    THEN [msg |-> "failed_with_error", value |-> IF TruthyNum(data.Error) THEN data.Error ELSE None]
    ELSE [msg |-> "failed", value |-> None]

\* catch (error) { res.status(500).json({error, details: error.message}) }
Caught(r, kind, details) ==
    [r EXCEPT !.pc = "done", !.fail = kind, !.sentAtFail = r.res.headersSent,
              !.res = SendError(@, SERVER_ERROR, details)]

\* await fetch(...) settles in the TTS handler.
TtsFetchSettles(s, outcome) ==
    /\ req[s].pc = "tts_fetch"
    /\ LET r == [req[s] EXCEPT !.fetched = outcome]
       IN req' = [req EXCEPT ![s] =
          CASE outcome = "reject" -> Caught(r, "fetch", [msg |-> "network", value |-> None])
            [] outcome = "not_ok" -> Caught(r, "status", [msg |-> "status", value |-> None])
            [] outcome = "ok" -> [r EXCEPT !.pc = "tts_json"]]
    /\ UNCHANGED <<variant, hits, arrivals, handled, routesSeen>>

\* await response.json() settles in the TTS handler.
TtsJsonSettles(s, data) ==
    /\ req[s].pc = "tts_json"
    /\ LET r == [req[s] EXCEPT !.data = data]
       IN req' = [req EXCEPT ![s] =
          CASE data.kind = "reject" -> Caught(r, "json", [msg |-> "parse", value |-> None])
            [] data.kind = "null" -> Caught(r, "json", [msg |-> "type_error", value |-> None])
            [] data.kind = "object" ->
                 IF ProviderSucceeded(data)
                 THEN [r EXCEPT !.pc = "done",
                                !.res = [SendBody(@, STATUS_OK, "json_audioUrl")
                                            EXCEPT !.audioUrl = data.URL]]
                 ELSE Caught(r, "provider", FailureDetails(variant, data))]
    /\ UNCHANGED <<variant, hits, arrivals, handled, routesSeen>>

\* ------------------------------------------------------------ audio relay
\* The headers of a 2xx answer of the audio source.
SourceHeaders ==
    [ctype : Opt({"audio/wav"}), clen : Opt(1..MaxChunks), cdisp : Opt({"attachment"})]

DEFAULT_TYPE == "audio/mpeg"
DEFAULT_DISPOSITION == "inline; filename=audio.mp3"
CACHE_ONE_HOUR == "public, max-age=3600"

OrElse(x, default) == IF TruthyStr(x) THEN x ELSE Some(default)

StreamHeadersNoLength(src) ==
    [ctype |-> OrElse(src.ctype, DEFAULT_TYPE),
     clen |-> None,
     cdisp |-> OrElse(src.cdisp, DEFAULT_DISPOSITION),
     cache |-> Some(CACHE_ONE_HOUR)]
\* res.set({...}) of the streaming revisions.
StreamHeaders(src) ==
    [ctype |-> OrElse(src.ctype, DEFAULT_TYPE),
     clen |-> src.clen,
     cdisp |-> OrElse(src.cdisp, DEFAULT_DISPOSITION),
     cache |-> Some(CACHE_ONE_HOUR)]

\* res.set({...}) of the buffering revision: the length is the buffer's.
BufferHeaders(src, len) ==
    [ctype |-> OrElse(src.ctype, DEFAULT_TYPE),
     clen |-> Some(len),
     cdisp |-> None,
     cache |-> Some(CACHE_ONE_HOUR)]

\* await fetch(audioUrl) settles in the relay handler.
DownloadFetchSettles(s, outcome, src) ==
    /\ req[s].pc = "dl_fetch"
    /\ outcome = "ok" \/ src = NoSrc
    /\ LET r == [req[s] EXCEPT !.fetched = outcome, !.src = src]
       IN req' = [req EXCEPT ![s] =
          CASE outcome = "reject" -> Caught(r, "fetch", [msg |-> "network", value |-> None])
            [] outcome = "not_ok" -> Caught(r, "status", [msg |-> "status", value |-> None])
            [] outcome = "ok" ->
                 IF Streaming(variant)
                 THEN [r EXCEPT !.pc = "dl_piping",
                                !.res = [@ EXCEPT !.headers = StreamHeaders(src)]]
                 ELSE [r EXCEPT !.pc = "dl_buffer"]]
    /\ UNCHANGED <<variant, hits, arrivals, handled, routesSeen>>

\* await response.buffer() settles (buffering revision): len is the size of the
\* decoded body, None a rejection.
DownloadBufferSettles(s, len) ==
    /\ req[s].pc = "dl_buffer"
    /\ req' = [req EXCEPT ![s] =
          IF len = None
          THEN Caught(@, "buffer", [msg |-> "network", value |-> None])
          ELSE [@ EXCEPT !.pc = "done", !.bufferLen = len,
                         !.res = [SendBody([@ EXCEPT !.headers = BufferHeaders(req[s].src, len[1])],
                                           STATUS_OK, "audio")
                                     EXCEPT !.bytes = len[1]]]]
    /\ UNCHANGED <<variant, hits, arrivals, handled, routesSeen>>

\* response.body.pipe(res): a chunk of the source reaches the client; the first
\* write sends the status line and the headers.
DownloadChunk(s) ==
    /\ req[s].pc = "dl_piping"
    /\ req[s].res.bytes < MaxChunks
    /\ req' = [req EXCEPT ![s].res =
                  [@ EXCEPT !.headersSent = TRUE, !.kind = "audio", !.bytes = @ + 1]]
    /\ UNCHANGED <<variant, hits, arrivals, handled, routesSeen>>

\* The source stream ends: pipe ends the response.
DownloadStreamEnd(s) ==
    /\ req[s].pc = "dl_piping"
    /\ req' = [req EXCEPT ![s] =
                  [@ EXCEPT !.pc = "done",
                            !.res = [@ EXCEPT !.headersSent = TRUE, !.ended = TRUE,
                                              !.ends = @ + 1, !.kind = "audio"]]]
    /\ UNCHANGED <<variant, hits, arrivals, handled, routesSeen>>

DownloadStreamErrorNoEnd(s) ==
    /\ req[s].pc = "dl_piping"
    /\ req' = [req EXCEPT ![s] =
                  [@ EXCEPT !.pc = "done", !.fail = "stream",
                            !.sentAtFail = req[s].res.headersSent]]
    /\ UNCHANGED <<variant, hits, arrivals, handled, routesSeen>>
\* response.body.on('error', ...) : res.end()
DownloadStreamError(s) ==
    /\ req[s].pc = "dl_piping"
    /\ req' = [req EXCEPT ![s] =
                  [@ EXCEPT !.pc = "done", !.fail = "stream",
                            !.sentAtFail = req[s].res.headersSent,
                            !.res = [@ EXCEPT !.headersSent = TRUE, !.ended = TRUE,
                                              !.ends = @ + 1, !.kind = "audio"]]]
    /\ UNCHANGED <<variant, hits, arrivals, handled, routesSeen>>

\* ------------------------------------------------------------ specifications
Settle(s) ==
    \/ \E o \in FetchOutcomes : TtsFetchSettles(s, o)
    \/ \E d \in JsonOutcomes : TtsJsonSettles(s, d)
    \/ \E o \in FetchOutcomes, src \in SourceHeaders \cup {NoSrc} : DownloadFetchSettles(s, o, src)
    \/ \E len \in Opt(0..MaxChunks) : DownloadBufferSettles(s, len)
    \/ DownloadChunk(s)
    \/ DownloadStreamEnd(s)
    \/ DownloadStreamError(s)

Next ==
    \/ \E s \in Slots, a \in Addresses, r \in Routes : \E b \in Bodies(r) :
          /\ arrivals[a] < ArrivalCap
          /\ Receive(s, a, r, b)
          /\ UNCHANGED pinger
    \/ \E a \in Addresses : WindowReset(a) /\ UNCHANGED pinger
    \/ \E s \in Slots : Settle(s) /\ UNCHANGED pinger

Spec == Init /\ [][Next]_vars

\* The limiter over whole windows: every address may exceed the quota, while the
\* request bodies are valid and the outbound calls succeed.
ValidBody(route) ==
    CASE route = TTS -> [NoBody EXCEPT !.text = Some("x"), !.voice = Some("x"),
                                       !.voiceName = Some("x")]
      [] route = DOWNLOAD -> [NoBody EXCEPT !.audioUrl = Some("x")]
      [] OTHER -> NoBody
GoodData == [kind |-> "object", Error |-> Some(0), URL |-> Some("u")]
PlainSource == [ctype |-> None, clen |-> Some(1), cdisp |-> None]
WindowCap(addr) == IF addr = "ip1" THEN max + Slack ELSE ArrivalCap

\* The outbound calls of slot s succeed.
SettleOk(s) ==
    \/ TtsFetchSettles(s, "ok")
    \/ TtsJsonSettles(s, GoodData)
    \/ DownloadFetchSettles(s, "ok", PlainSource)
    \/ DownloadBufferSettles(s, Some(1))
    \/ DownloadStreamEnd(s)

NextLimiter ==
    \/ \E s \in Slots, a \in Addresses, r \in Routes :
          /\ arrivals[a] < WindowCap(a)
          /\ Receive(s, a, r, ValidBody(r))
          /\ UNCHANGED pinger
    \/ \E a \in Addresses : WindowReset(a) /\ UNCHANGED pinger
    \/ \E s \in Slots : SettleOk(s) /\ UNCHANGED pinger

SpecLimiter == Init /\ [][NextLimiter]_vars

\* Concurrent requests of one address over whole windows: two requests may be
\* in flight at a time, each suspended on its outbound call.
ConcSlots == {"s1", "s2"}
InitConc ==
    /\ variant \in Variants
    /\ hits = [k \in LimiterKeys |-> 0]
    /\ arrivals = [a \in Addresses |-> 0]
    /\ handled = [a \in Addresses |-> 0]
    /\ routesSeen = [a \in Addresses |-> {}]
    /\ req = [s \in ConcSlots |-> IdleReq]
    /\ pinger = StartPinger(variant)

NextConc ==
    \/ \E s \in ConcSlots, r \in {TTS, DOWNLOAD} :
          /\ arrivals["ip1"] < max + Slack
          /\ Receive(s, "ip1", r, ValidBody(r))
          /\ UNCHANGED pinger
    \/ WindowReset("ip1") /\ UNCHANGED pinger
    \/ \E s \in ConcSlots : SettleOk(s) /\ UNCHANGED pinger

SpecConc == InitConc /\ [][NextConc]_vars

\* One request of the forwarder or the relay at a time, with every body and every
\* outcome of its outbound call; an outbound call that was issued settles in the
\* end, and an upstream stream ends or errors.
SettleStep(s) == Settle(s) /\ UNCHANGED pinger
NextAnswer ==
    \/ \E s \in Slots, r \in {TTS, DOWNLOAD} : \E b \in Bodies(r) :
          /\ arrivals["ip1"] < ArrivalCap
          /\ Receive(s, "ip1", r, b)
          /\ UNCHANGED pinger
    \/ WindowReset("ip1") /\ UNCHANGED pinger
    \/ \E s \in Slots : SettleStep(s)

SpecAnswer == Init /\ [][NextAnswer]_vars /\ \A s \in Slots : WF_vars(SettleStep(s))

\* The pinger beside request handling. At most MaxPings pings await their answer;
\* the event loop runs a due timer and every ping is settled in the end.
PingTickBounded == pinger.fetching + pinger.parsing < MaxPings /\ PingTick
PingSettle ==
    \/ \E o \in PingFetchOutcomes : PingFetchSettles(o)
    \/ \E b \in PingBodies : PingJsonSettles(b)

NextPinger ==
    \/ PingTickBounded
    \/ PingSettle
    \/ \E s \in Slots, r \in Routes :
          /\ arrivals["ip1"] < ArrivalCap
          /\ Receive(s, "ip1", r, ValidBody(r))
          /\ UNCHANGED pinger
    \/ WindowReset("ip1") /\ UNCHANGED pinger
    \/ \E s \in Slots : SettleOk(s) /\ UNCHANGED pinger

SpecPinger == Init /\ [][NextPinger]_vars /\ WF_vars(PingTickBounded) /\ WF_vars(PingSettle)

\* ------------------------------------------------------------ properties
Active(r) == r.pc # "idle"
Min(a, b) == IF a < b THEN a ELSE b
\* Slot s received a new request in this step.
Arrives(s) == req'[s].gen # req[s].gen

\* C1: a POST /api/tts request that passed the limiter and whose body lacks a
\* non-empty text or a non-empty voice is answered 400, with no outbound call.
C1_MissingFieldRejected ==
    \A s \in Slots :
        LET r == req[s]
        IN (Active(r) /\ r.route = TTS /\ r.admitted
              /\ (~TruthyStr(r.body.text) \/ ~TruthyStr(r.body.voice)))
           => (r.res.status = BAD_REQUEST /\ r.outbound = 0)

\* The provider answered 2xx with error code 0 and a non-empty URL.
ProviderAnsweredOk(r) ==
    /\ r.fetched = "ok"
    /\ r.data.kind = "object"
    /\ r.data.Error = Some(0)
    /\ r.data.URL \notin {None, Some("")}

\* C2: a finished POST /api/tts request with non-empty text and voice that passed
\* the limiter is answered 200 with audioUrl = the provider's URL exactly when the
\* provider answered 2xx, error code 0 and a non-empty URL, and 500 otherwise.
C2_SuccessIffProviderOk ==
    \A s \in Slots :
        LET r == req[s]
        IN (r.pc = "done" /\ r.route = TTS /\ r.admitted
              /\ TruthyStr(r.body.text) /\ TruthyStr(r.body.voice))
           => IF ProviderAnsweredOk(r)
              THEN r.res.status = STATUS_OK /\ r.res.audioUrl = r.data.URL
              ELSE r.res.status = SERVER_ERROR

\* C3: when the provider answers a validated POST /api/tts request 2xx with an
\* error code other than 0, the response is 500 and its details embed that code.
C3_ProviderErrorEmbedded ==
    \A s \in Slots :
        LET r == req[s]
        IN (r.pc = "done" /\ r.route = TTS /\ r.fetched = "ok" /\ r.data.kind = "object"
              /\ r.data.Error # None /\ r.data.Error # Some(0))
           => (r.res.status = SERVER_ERROR /\ r.res.details.value = r.data.Error)

\* C11: while the pinger is loaded, every tick issues exactly one GET; no step of
\* the pinger changes request-handling or rate-limiter state; whatever a ping
\* settles with, the failure is caught and logged, the interval stays armed,
\* and the pinger keeps firing.
C11_PingerIsolatedAndAlive ==
    /\ [][/\ pinger'.phase # pinger.phase
              => (pinger'.fetching = pinger.fetching + 1 /\ pinger'.parsing = pinger.parsing)
          /\ pinger' # pinger => UNCHANGED serverVars
          /\ (pinger'.fetching + pinger'.parsing < pinger.fetching + pinger.parsing)
              => pinger'.log \in {"error", "response"}
          /\ pinger.timer = "armed" => (pinger'.timer = "armed" /\ ~pinger'.crashed)]_vars
    /\ []<>(pinger.timer = "armed" => pinger.phase = 0)
    /\ []<>(pinger.timer = "armed" => pinger.phase = 1)

\* C11 witness: a ping whose JSON lacked the expected fields was logged as an
\* error, the interval is armed and a later ping is under way.
C11_Witness ==
    /\ pinger.log = "error" /\ pinger.caught = "type_error"
    /\ pinger.timer = "armed" /\ ~pinger.crashed
    /\ pinger.fetching > 0
    /\ \E s \in Slots : req[s].pc = "tts_fetch"

\* A request is suspended inside its handler.
Suspended(r) == r.pc \in {"tts_fetch", "tts_json", "dl_fetch", "dl_buffer", "dl_piping"}

\* C12: under any interleaving of in-flight requests of one address, each request
\* increments the address's counter exactly once, on arrival; the resumption of
\* a suspended request changes no counter; no increment is lost; and never more
\* than 200 requests of the address are admitted to handlers within one window.
C12_AtomicCounter ==
    /\ [](\A a \in Addresses :
            /\ \A r \in LimitedRoutes : hits[LimiterKey(a, r)] = arrivals[a]
            /\ handled[a] <= max)
    /\ [][/\ \A s \in ConcSlots :
                (Arrives(s) /\ req'[s].route \in LimitedRoutes)
                => LET key == LimiterKey(req'[s].addr, req'[s].route)
                   IN /\ hits'[key] = hits[key] + 1
                      /\ \A k \in LimiterKeys \ {key} : hits'[k] = hits[k]
          /\ ((\A s \in ConcSlots : ~Arrives(s)) /\ arrivals' = arrivals) => hits' = hits]_vars

\* C12 witness: two admitted requests of one address are suspended at the same
\* time, the 200th request of the window among them.
C12_Witness ==
    \E s, t \in ConcSlots :
        /\ s # t /\ req[s].addr = req[t].addr
        /\ Suspended(req[s]) /\ req[s].admitted
        /\ Suspended(req[t]) /\ req[t].admitted
        /\ handled[req[s].addr] = max
        /\ hits[LimiterKey(req[s].addr, req[s].route)] = max

\* C13: a request admitted to the POST /api/tts or POST /api/download-audio
\* handler gets exactly one terminal response: the response is terminated at most
\* once; the handler is finished only with the response ended; nothing is
\* written after the response ended and the status sent is never replaced; and
\* a suspended request is answered once its outbound call settles or its
\* upstream stream ends or errors.
C13_ExactlyOneResponse ==
    /\ [](\A s \in Slots :
            LET r == req[s]
            IN (Active(r) /\ r.admitted /\ r.route \in {TTS, DOWNLOAD})
               => /\ r.res.ends <= 1
                  /\ r.pc = "done" \/ Suspended(r)
                  /\ r.pc = "done" => (r.res.ended /\ r.res.headersSent /\ r.res.ends = 1)
                  /\ Suspended(r) => (~r.res.ended /\ r.res.ends = 0))
    /\ [][\A s \in Slots :
            ~Arrives(s)
            => /\ req[s].res.ended => req'[s].res = req[s].res
               /\ req[s].res.headersSent
                  => (req'[s].res.status = req[s].res.status
                        /\ req'[s].res.kind = req[s].res.kind)]_vars
    /\ \A s \in Slots : Suspended(req[s]) ~> req[s].res.ended

\* C13 witness: a relay whose upstream stream failed after a chunk was sent has
\* its response ended once, with the status first sent.
C13_Witness ==
    \E s \in Slots :
        /\ req[s].pc = "done" /\ req[s].route = DOWNLOAD /\ req[s].fail = "stream"
        /\ req[s].sentAtFail /\ req[s].res.bytes > 0
        /\ req[s].res.ended /\ req[s].res.ends = 1 /\ req[s].res.status = STATUS_OK

\* C4: of the requests an address sends to the limited routes in one window, the
\* first 200 reach their handler; every later one gets the throttling message
\* and no handler runs for it.
C4_FirstMaxAdmitted ==
    /\ \A a \in Addresses : handled[a] = Min(arrivals[a], max)
    /\ \A s \in Slots :
          LET r == req[s]
          IN (Active(r) /\ r.route \in LimitedRoutes /\ ~r.admitted)
             => (r.pc = "done" /\ r.res.kind = "throttle_msg" /\ r.res.status = THROTTLED
                   /\ r.outbound = 0)

\* C4 witness: the 201st request of a window was throttled after 200 handled ones.
C4_Witness ==
    \E s \in Slots :
        /\ req[s].pc = "done" /\ req[s].route \in LimitedRoutes /\ ~req[s].admitted
        /\ arrivals[req[s].addr] = max + 1
        /\ handled[req[s].addr] = max

\* C5 (as stated): a request to one limited route does not consume the quota of
\* another limited route: the counter consulted for every other limited route is
\* left as it was.
C5_IndependentPerRoute ==
    [][\A s \in Slots :
          (Arrives(s) /\ req'[s].route \in LimitedRoutes)
          => \A other \in LimitedRoutes \ {req'[s].route} :
                hits'[LimiterKey(req'[s].addr, other)] = hits[LimiterKey(req'[s].addr, other)]]_vars

\* C5 (amended): the quota is shared by the limited routes: the counter consulted
\* for any limited route counts the address's requests to all of them in the window.
C5_SharedQuota ==
    \A a \in Addresses, r \in LimitedRoutes : hits[LimiterKey(a, r)] = arrivals[a]

\* C5 witness: the first request of a window to a route is throttled, the quota
\* having been used up on other routes.
C5_Witness ==
    \E s \in Slots :
        /\ req[s].pc = "done" /\ req[s].route \in LimitedRoutes
        /\ req[s].firstOnRoute /\ ~req[s].admitted
        /\ req[s].res.status = THROTTLED

\* C6: a request to GET /api/health or GET / always reaches its handler and is
\* answered 200 with the status payload / the HTML page, and changes no counter.
C6_UnlimitedNeverThrottled ==
    [][\A s \in Slots :
          (Arrives(s) /\ req'[s].route \in UnlimitedRoutes)
          => /\ hits' = hits
             /\ req'[s].admitted /\ req'[s].pc = "done"
             /\ req'[s].res.status = STATUS_OK
             /\ req'[s].res.kind = IF req'[s].route = HEALTH THEN "json_health" ELSE "html"]_vars

\* C6 witness: an address over its quota got GET /api/health answered.
C6_Witness ==
    \E s \in Slots :
        /\ req[s].pc = "done" /\ req[s].route = HEALTH /\ req[s].res.status = STATUS_OK
        /\ hits[LimiterKey(req[s].addr, DATA)] > max

\* C7: a POST /api/download-audio request that passed the limiter and has no
\* non-empty audioUrl is answered 400 and no outbound fetch is issued.
C7_MissingUrlRejected ==
    \A s \in Slots :
        LET r == req[s]
        IN (Active(r) /\ r.route = DOWNLOAD /\ r.admitted /\ ~TruthyStr(r.body.audioUrl))
           => (r.pc = "done" /\ r.res.status = BAD_REQUEST /\ r.res.kind = "json_error"
                 /\ r.outbound = 0 /\ r.fetched = "none")

\* C7 witness: an admitted relay request with an empty audioUrl was answered.
C7_Witness ==
    \E s \in Slots :
        /\ req[s].route = DOWNLOAD /\ req[s].admitted /\ req[s].body.audioUrl = Some("")
        /\ req[s].res.status = BAD_REQUEST

\* C8: a validated relay request whose remote fetch fails is answered 500 with a
\* JSON error when nothing had been sent to the client at the failure; when
\* something had, the connection is ended and no JSON error or second status is
\* written.
C8_FailureBeforeSendIs500 ==
    \A s \in Slots :
        LET r == req[s]
        IN (r.route = DOWNLOAD /\ r.fail # "none")
           => IF r.sentAtFail
              THEN r.res.ended /\ r.res.kind = "audio" /\ r.res.status = STATUS_OK
              ELSE r.res.status = SERVER_ERROR /\ r.res.kind = "json_error"

\* The relay answered with the audio: the fetch (and the buffering) succeeded.
DownloadSucceeded(r) ==
    /\ r.pc = "done" /\ r.route = DOWNLOAD /\ r.fetched = "ok" /\ r.fail = "none"
    /\ r.res.kind = "audio"

ForwardedType(r) ==
    IF r.src.ctype = None THEN r.res.headers.ctype = Some("audio/mpeg")
                          ELSE r.res.headers.ctype = r.src.ctype

\* C9 (as stated): on success Content-Type is the source's (audio/mpeg when it
\* gives none) and Content-Length is the source's whenever it supplies one.
C9_LengthMatchesSource ==
    \A s \in Slots :
        LET r == req[s]
        IN DownloadSucceeded(r)
           => /\ ForwardedType(r)
              /\ r.src.clen # None => r.res.headers.clen = r.src.clen

\* C9 (amended): on success Content-Type is the source's (audio/mpeg when it gives
\* none); Content-Length is the source's whenever it supplies one in the
\* streaming revisions, and the length of the buffered body in src/app.js.
C9_LengthPerRevision ==
    \A s \in Slots :
        LET r == req[s]
        IN DownloadSucceeded(r)
           => /\ ForwardedType(r)
              /\ IF variant = "app_js"
                 THEN r.res.headers.clen = r.bufferLen /\ r.bufferLen # None
                 ELSE r.src.clen # None => r.res.headers.clen = r.src.clen

\* C9 witness: a successful relay of a source that supplies a content-length and
\* no content-type.
C9_Witness ==
    \E s \in Slots :
        /\ DownloadSucceeded(req[s])
        /\ req[s].src.clen # None /\ req[s].src.ctype = None
        /\ req[s].res.headers.clen = req[s].src.clen

\* C10: every successful relay response carries Content-Disposition equal to the
\* source's, or the default inline disposition when it has none, and
\* Cache-Control max-age=3600.
C10_DispositionAndCache ==
    \A s \in Slots :
        LET r == req[s]
        IN DownloadSucceeded(r)
           => /\ r.res.headers.cdisp =
                    IF r.src.cdisp = None THEN Some("inline; filename=audio.mp3")
                                          ELSE r.src.cdisp
              /\ r.res.headers.cache = Some("public, max-age=3600")
====
